---- MODULE Spec2Model ----
(***************************************************************************)
(* Model of the saloon canister of src/src/index.ts: one StableBTreeMap    *)
(* keyed by saloon id, and the seven exported calls that read and write    *)
(* it.  The platform runs every call to completion before the next one is  *)
(* admitted, so each call is one action.                                   *)
(*                                                                         *)
(* Abstractions, stated once:                                              *)
(*  - uuidv4() is modelled by its contract: it returns an identifier that  *)
(*    it never returned before (the next unused element of UuidPool).      *)
(*  - ic.time() is a non-decreasing clock; several calls may see the same  *)
(*    time.                                                                *)
(*  - numbers are exact rationals <<numerator, denominator>>, denominator  *)
(*    > 0, in lowest terms; <<0, 0>> is NaN.  float32 rounding of the      *)
(*    stored rating is not modelled.                                       *)
(*  - records stay within the key and value sizes the map was declared     *)
(*    with, so that insert always stores.                                  *)
(*  - steps counts the clock ticks and update calls executed so far; it    *)
(*    only bounds the length of the runs that are explored.                *)
(***************************************************************************)
EXTENDS Integers, Sequences, FiniteSets, TLC

VARIABLES saloonStorage, issued, now, last, steps

vars == <<saloonStorage, issued, now, last, steps>>

----------------------------------------------------------------------------
(* Bounds of the model *)

MaxSteps == 3

----------------------------------------------------------------------------
(* Inputs *)

Principals == {"p1", "p2"}

UuidPool == <<"u1", "u2", "u3", "u4", "u5", "u6", "u7", "u8">>

\* the n-th identifier uuidv4() hands out
Uuid(n) == UuidPool[n]

\* the identifiers handed out so far: saloon ids and service ids
IssuedIds == {Uuid(n) : n \in 1..issued}

\* ids a caller may pass: the empty string, a string that was never handed
\* out, and every identifier handed out so far
IdInputs == {"", "zz"} \cup IssuedIds

SaloonPayload(n, l, a) == [saloonName |-> n, saloonLocation |-> l, attachmentURL |-> a]

ValidSaloonPayloads == {SaloonPayload("lux", "north", "http://a"),
                        SaloonPayload("glam", "south", "http://b")}

SaloonPayloads == ValidSaloonPayloads \cup
                  {SaloonPayload("", "north", "http://a"),
                   SaloonPayload("lux", "", "http://a"),
                   SaloonPayload("lux", "north", "")}

\* updateSaloonById does not validate its payload: empty fields are stored
UpdatePayloads == ValidSaloonPayloads \cup {SaloonPayload("", "north", "http://a")}

ServiceRenderedPayloads == {[serviceName |-> "cut", serviceDescription |-> "hair cut", serviceAmount |-> 10]}

----------------------------------------------------------------------------
(* Numbers: exact rationals, and NaN *)

NaN == <<0, 0>>

IsNaN(x) == x[2] = 0

Abs(n) == IF n < 0 THEN -n ELSE n

RECURSIVE GCD(_, _)
GCD(a, b) == IF b = 0 THEN a ELSE GCD(b, a % b)

Norm(x) == LET g == GCD(Abs(x[1]), x[2]) IN <<x[1] \div g, x[2] \div g>>

Num(n) == <<n, 1>>

\* x < y of JavaScript: false when either side is NaN
Lt(x, y) == ~IsNaN(x) /\ ~IsNaN(y) /\ x[1] * y[2] < y[1] * x[2]

Gt(x, y) == Lt(y, x)

\* x + y of JavaScript numbers
Add(x, y) == IF IsNaN(x) \/ IsNaN(y) THEN NaN
             ELSE Norm(<<x[1] * y[2] + y[1] * x[2], x[2] * y[2]>>)

\* x / n for a positive integer literal n
DivBy(x, n) == IF IsNaN(x) THEN NaN ELSE Norm(<<x[1], x[2] * n>>)

Rates == {Num(-1), Num(0), Num(5), Num(6), <<5, 2>>, NaN}

----------------------------------------------------------------------------
(* Opt and Result *)

None == <<>>

Some(v) == <<v>>

ErrNoSaloons == "No saloons found."
ErrInvalidId == "Invalid id"
ErrDoesNotExist == "Saloon with id does not exist"
ErrMissingFields == "Missing required fields in payload"
ErrNotOwner == "You are not the owner of this saloon"
ErrUnable == "Unable to carry out the following function"
ErrDeleteNotFound == "couldn't delete saloon with this id. saloon not found."
ErrInvalidRate == "Error rating saloon. Invalid rating value. Value should not be more than 5 or less than 0"
ErrRateNotFound == "Error rating saloon. Saloon not found"
ErrUpdateNotFound == "couldn't update the saloon with this id. saloon not found"

\* Result.Ok of one saloon, Result.Ok of a Vec of saloons, Result.Err
Ok(saloon) == [ok |-> TRUE, err |-> "", val |-> <<saloon>>]

OkVec(saloons) == [ok |-> TRUE, err |-> "", val |-> saloons]

Err(msg) == [ok |-> FALSE, err |-> msg, val |-> <<>>]

----------------------------------------------------------------------------
(* StableBTreeMap *)

Get(map, key) == IF key \in DOMAIN map THEN Some(map[key]) ELSE None

Insert(map, key, value) == [k \in DOMAIN map \cup {key} |-> IF k = key THEN value ELSE map[k]]

\* variant: the map is cleared
Remove_All(map, key) == [k \in {} |-> None]

Remove(map, key) == [k \in DOMAIN map \ {key} |-> map[k]]

\* values(): the stored records in key order
RECURSIVE ValuesFrom(_, _)
ValuesFrom(map, n) == IF n > Len(UuidPool) THEN <<>>
                      ELSE (IF Uuid(n) \in DOMAIN map THEN <<map[Uuid(n)]>> ELSE <<>>)
                           \o ValuesFrom(map, n + 1)

Values(map) == ValuesFrom(map, 1)

----------------------------------------------------------------------------
(* The state after construction *)

\* the last call answered: its name, the caller and the id argument where the
\* call reads them ("" otherwise), and the Result it returned
Call(op, caller, id, result) == [op |-> op, caller |-> caller, id |-> id, result |-> result]

Init == /\ saloonStorage = [k \in {} |-> None]
        /\ issued = 0
        /\ now = 0
        /\ last = Call("none", "", "", Err(""))
        /\ steps = 0

\* the platform clock advances between calls
Tick == /\ steps < MaxSteps
        /\ now' = now + 1
        /\ steps' = steps + 1
        /\ UNCHANGED <<saloonStorage, issued, last>>

----------------------------------------------------------------------------
(* Object spread {...base, ...over}: the fields of over replace those of base *)

Spread(base, over) == [f \in DOMAIN base \cup DOMAIN over |->
                          IF f \in DOMAIN over THEN over[f] ELSE base[f]]

\* the outcome of one call: the map it leaves and the Result it returns
Outcome(map, result) == [store |-> map, result |-> result]

----------------------------------------------------------------------------
(* getAllSaloons *)

\* variant: an empty map is answered with an empty Vec
getAllSaloonsStep_EmptyOk(map) == Outcome(map, OkVec(Values(map)))

getAllSaloonsStep(map) ==
    LET saloons == Values(map)
    IN IF Len(saloons) = 0 THEN Outcome(map, Err(ErrNoSaloons))
       ELSE Outcome(map, OkVec(saloons))

getAllSaloons ==
    LET out == getAllSaloonsStep(saloonStorage)
    IN /\ saloonStorage' = out.store
       /\ last' = Call("getAllSaloons", "", "", out.result)
       /\ UNCHANGED <<issued, now, steps>>

(* getSaloonById *)

\* variant: the empty id is not rejected
getSaloonByIdStep_NoIdCheck(map, id) ==
    LET found == Get(map, id)
    IN IF found = None THEN Outcome(map, Err(ErrDoesNotExist))
       ELSE Outcome(map, Ok(found[1]))

getSaloonByIdStep(map, id) ==
    IF id = "" THEN Outcome(map, Err(ErrInvalidId))
    ELSE LET found == Get(map, id)
         IN IF found = None THEN Outcome(map, Err(ErrDoesNotExist))
            ELSE Outcome(map, Ok(found[1]))

getSaloonById(id) ==
    LET out == getSaloonByIdStep(saloonStorage, id)
    IN /\ saloonStorage' = out.store
       /\ last' = Call("getSaloonById", "", id, out.result)
       /\ UNCHANGED <<issued, now, steps>>

----------------------------------------------------------------------------
(* createSaloon *)

\* variant: only the name is validated
MissingFields_NameOnly(payload) == payload.saloonName = ""

MissingFields(payload) ==
    \/ payload.saloonName = ""
    \/ payload.saloonLocation = ""
    \/ payload.attachmentURL = ""

NewSaloon(caller, uuid, time, payload) ==
    Spread([id |-> uuid,
            owner |-> caller,
            rating |-> Num(1),
            servicesRendered |-> <<>>,
            createdAt |-> time,
            updatedAt |-> None],
           payload)

\* variant: the record is filed under its name
createSaloonStep_KeyedByName(map, caller, uuid, time, payload) ==
    IF MissingFields(payload) THEN Outcome(map, Err(ErrMissingFields))
    ELSE LET saloon == NewSaloon(caller, uuid, time, payload)
         IN Outcome(Insert(map, saloon.saloonName, saloon), Ok(saloon))

createSaloonStep(map, caller, uuid, time, payload) ==
    IF MissingFields(payload) THEN Outcome(map, Err(ErrMissingFields))
    ELSE LET saloon == NewSaloon(caller, uuid, time, payload)
         IN Outcome(Insert(map, saloon.id, saloon), Ok(saloon))

createSaloon(caller, payload) ==
    /\ steps < MaxSteps
    /\ LET out == createSaloonStep(saloonStorage, caller, Uuid(issued + 1), now, payload)
       IN /\ saloonStorage' = out.store
          /\ last' = Call("createSaloon", caller, "", out.result)
    /\ issued' = IF MissingFields(payload) THEN issued ELSE issued + 1
    /\ steps' = steps + 1
    /\ UNCHANGED now

----------------------------------------------------------------------------
(* createService *)

NewServiceRendered(uuid, time, payload) ==
    Spread([id |-> uuid, createdAt |-> time], payload)

\* variant: the new entry is put first (unshift instead of push)
WithService_Prepend(saloon, serviceRendered) ==
    Spread(saloon, [servicesRendered |-> <<serviceRendered>> \o saloon.servicesRendered])

\* variant: appending a service also stamps updatedAt
WithService_StampsUpdatedAt(saloon, serviceRendered) ==
    Spread(saloon, [servicesRendered |-> Append(saloon.servicesRendered, serviceRendered),
                    updatedAt |-> Some(serviceRendered.createdAt)])

WithService(saloon, serviceRendered) ==
    Spread(saloon, [servicesRendered |-> Append(saloon.servicesRendered, serviceRendered)])

\* variant: the ownership comparison is missing
IsOwner_Anyone(saloon, caller) == TRUE

IsOwner(saloon, caller) == saloon.owner = caller

\* variant: the record is written before the ownership comparison
createServiceStep_WriteFirst(map, caller, uuid, time, id, payload) ==
    LET serviceRendered == Spread([id |-> uuid, createdAt |-> time], payload)
        found == Get(map, id)
    IN IF found = None THEN Outcome(map, Err(ErrUnable))
       ELSE LET Saloon == Spread(found[1], [servicesRendered |->
                                    Append(found[1].servicesRendered, serviceRendered)])
                written == Insert(map, found[1].id, Saloon)
            IN IF found[1].owner # caller THEN Outcome(written, Err(ErrNotOwner))
               ELSE Outcome(written, Ok(Saloon))

createServiceStep(map, caller, uuid, time, id, payload) ==
    LET serviceRendered == NewServiceRendered(uuid, time, payload)
        found == Get(map, id)
    IN IF found = None THEN Outcome(map, Err(ErrUnable))
       ELSE IF ~IsOwner(found[1], caller) THEN Outcome(map, Err(ErrNotOwner))
       ELSE LET Saloon == WithService(found[1], serviceRendered)
            IN Outcome(Insert(map, found[1].id, Saloon), Ok(Saloon))

createService(caller, id, payload) ==
    /\ steps < MaxSteps
    /\ LET out == createServiceStep(saloonStorage, caller, Uuid(issued + 1), now, id, payload)
       IN /\ saloonStorage' = out.store
          /\ last' = Call("createService", caller, id, out.result)
    /\ issued' = issued + 1
    /\ steps' = steps + 1
    /\ UNCHANGED now

----------------------------------------------------------------------------
(* deleteSaloon *)

\* variant: the record is looked up with get and never removed
deleteSaloonStep_KeepsRecord(map, caller, id) ==
    LET found == Get(map, id)
    IN IF found = None THEN Outcome(map, Err(ErrDeleteNotFound))
       ELSE IF found[1].owner # caller THEN Outcome(map, Err(ErrNotOwner))
       ELSE Outcome(map, Ok(found[1]))

deleteSaloonStep(map, caller, id) ==
    LET removed == Get(map, id)
        afterRemove == Remove(map, id)
    IN IF removed = None THEN Outcome(afterRemove, Err(ErrDeleteNotFound))
       ELSE IF ~IsOwner(removed[1], caller) THEN Outcome(afterRemove, Err(ErrNotOwner))
       ELSE Outcome(Remove(afterRemove, id), Ok(removed[1]))

deleteSaloon(caller, id) ==
    LET out == deleteSaloonStep(saloonStorage, caller, id)
    IN /\ steps < MaxSteps
       /\ saloonStorage' = out.store
       /\ last' = Call("deleteSaloon", caller, id, out.result)
       /\ steps' = steps + 1
       /\ UNCHANGED <<issued, now>>

----------------------------------------------------------------------------
(* rateSaloon *)

RateOutOfRange(rate) == Lt(rate, Num(0)) \/ Gt(rate, Num(5))

\* variant: the mean of the two values
NewRating_Mean(saloonRating, rate) == DivBy(Add(saloonRating, rate), 2)

\* (saloonRating + rate) / 5
NewRating(saloonRating, rate) == DivBy(Add(saloonRating, rate), 5)

\* variant: the new rating is not written into the record
RatedSaloon_KeepsRating(saloonData, rating, time) ==
    Spread(saloonData, [updatedAt |-> Some(time)])

RatedSaloon(saloonData, rating, time) ==
    Spread(saloonData, [rating |-> rating, updatedAt |-> Some(time)])

\* variant: the id is looked up before the rate is validated
rateSaloonStep_LookupFirst(map, time, id, rate) ==
    LET found == Get(map, id)
    IN IF found = None THEN Outcome(map, Err(ErrRateNotFound))
       ELSE IF Lt(rate, Num(0)) \/ Gt(rate, Num(5)) THEN Outcome(map, Err(ErrInvalidRate))
       ELSE LET saloon == Spread(found[1],
                                 [rating |-> DivBy(Add(found[1].rating, rate), 5),
                                  updatedAt |-> Some(time)])
            IN Outcome(Insert(map, saloon.id, saloon), Ok(saloon))

\* The first lookup yields the rating, or a Result.Err object when the id does
\* not resolve; an object plus a number, divided by 5, is NaN.
rateSaloonStep(map, time, id, rate) ==
    IF RateOutOfRange(rate) THEN Outcome(map, Err(ErrInvalidRate))
    ELSE LET first == Get(map, id)
             rating == IF first = None THEN NaN ELSE NewRating(first[1].rating, rate)
             second == Get(map, id)
         IN IF second = None THEN Outcome(map, Err(ErrRateNotFound))
            ELSE LET saloon == RatedSaloon(second[1], rating, time)
                 IN Outcome(Insert(map, saloon.id, saloon), Ok(saloon))

rateSaloon(id, rate) ==
    LET out == rateSaloonStep(saloonStorage, now, id, rate)
    IN /\ steps < MaxSteps
       /\ saloonStorage' = out.store
       /\ last' = Call("rateSaloon", "", id, out.result)
       /\ steps' = steps + 1
       /\ UNCHANGED <<issued, now>>

----------------------------------------------------------------------------
(* updateSaloonById *)

\* variant: createdAt is stamped again on update
UpdatedSaloon_ResetsCreatedAt(saloon, payload, time) ==
    Spread(Spread(saloon, payload), [createdAt |-> time, updatedAt |-> Some(time)])

\* variant: updatedAt is not set
UpdatedSaloon_NoTimestamp(saloon, payload, time) == Spread(saloon, payload)

UpdatedSaloon(saloon, payload, time) ==
    Spread(Spread(saloon, payload), [updatedAt |-> Some(time)])

updateSaloonByIdStep(map, time, id, payload) ==
    LET found == Get(map, id)
    IN IF found = None THEN Outcome(map, Err(ErrUpdateNotFound))
       ELSE LET updatedSaloon == UpdatedSaloon(found[1], payload, time)
            IN Outcome(Insert(map, found[1].id, updatedSaloon), Ok(updatedSaloon))

updateSaloonById(caller, id, payload) ==
    LET out == updateSaloonByIdStep(saloonStorage, now, id, payload)
    IN /\ saloonStorage' = out.store
       /\ steps < MaxSteps
       /\ last' = Call("updateSaloonById", caller, id, out.result)
       /\ steps' = steps + 1
       /\ UNCHANGED <<issued, now>>

----------------------------------------------------------------------------
(* The canister: calls are admitted one at a time, by any caller *)

Next ==
    \/ Tick
    \/ getAllSaloons
    \/ \E id \in IdInputs : getSaloonById(id)
    \/ \E caller \in Principals, payload \in SaloonPayloads : createSaloon(caller, payload)
    \/ \E caller \in Principals, id \in IdInputs, payload \in ServiceRenderedPayloads :
          createService(caller, id, payload)
    \/ \E caller \in Principals, id \in IdInputs : deleteSaloon(caller, id)
    \/ \E id \in IdInputs, rate \in Rates : rateSaloon(id, rate)
    \/ \E caller \in Principals, id \in IdInputs, payload \in UpdatePayloads :
          updateSaloonById(caller, id, payload)

Spec == Init /\ [][Next]_vars

----------------------------------------------------------------------------
(* Vocabulary of the properties *)

Keys == DOMAIN saloonStorage

\* this step answered a call of op (a clock tick leaves last as it was)
Called(op) == now' = now /\ last'.op = op

\* 0 <= rate <= 5, and rate < 0 or rate > 5, read off the fraction itself
InRange(rate) == rate[2] > 0 /\ rate[1] >= 0 /\ rate[1] <= 5 * rate[2]

OutOfRange(rate) == rate[2] > 0 /\ (rate[1] < 0 \/ rate[1] > 5 * rate[2])

IsPrefix(s, t) == Len(s) <= Len(t) /\ \A i \in 1..Len(s) : s[i] = t[i]

\* position of an identifier in the order uuidv4() handed them out
IssueIndex(uuid) == CHOOSE n \in 1..Len(UuidPool) : Uuid(n) = uuid

----------------------------------------------------------------------------
\* C1: a stored saloon id stops resolving only through a deleteSaloon call on
\* that id whose caller is the record's owner; no call by a non-owner removes
\* a record.
C1_OnlyOwnerDeletes ==
    [][\A id \in Keys :
          id \notin DOMAIN saloonStorage' =>
             /\ Called("deleteSaloon")
             /\ last'.id = id
             /\ last'.caller = saloonStorage[id].owner]_vars

----------------------------------------------------------------------------
\* C2: a call that returns Result.Err leaves the map exactly as it was; the
\* one exception is deleteSaloon by a non-owner on an id that resolves.
C2_ErrorLeavesStore ==
    [][(now' = now /\ ~last'.result.ok) =>
          \/ saloonStorage' = saloonStorage
          \/ /\ last'.op = "deleteSaloon"
             /\ last'.id \in Keys
             /\ last'.caller # saloonStorage[last'.id].owner]_vars

\* updateSaloonById has just failed on an id that does not resolve while a
\* saloon is stored
C2_Witness ==
    /\ last.op = "updateSaloonById"
    /\ ~last.result.ok
    /\ last.id \notin Keys
    /\ Keys # {}

----------------------------------------------------------------------------
\* C3: createService by a caller other than the owner returns "You are not
\* the owner of this saloon" (PermissionDenied) and leaves servicesRendered
\* unchanged; servicesRendered of a stored saloon changes only in a
\* createService call on it by its owner; createService on an id that does
\* not resolve returns "Unable to carry out the following function"
\* (NotFound) whoever calls.
C3_ServiceOnlyByOwner ==
    [][/\ (Called("createService") /\ last'.id \in Keys
             /\ last'.caller # saloonStorage[last'.id].owner) =>
            /\ last'.result = Err(ErrNotOwner)
            /\ last'.id \in DOMAIN saloonStorage'
            /\ saloonStorage'[last'.id].servicesRendered
                  = saloonStorage[last'.id].servicesRendered
       /\ \A id \in Keys \cap DOMAIN saloonStorage' :
            saloonStorage'[id].servicesRendered # saloonStorage[id].servicesRendered =>
               /\ Called("createService")
               /\ last'.id = id
               /\ last'.caller = saloonStorage[id].owner
       /\ (Called("createService") /\ last'.id \notin Keys) =>
            last'.result = Err(ErrUnable)]_vars

\* a non-owner has just been refused on a saloon that exists
C3_Witness ==
    /\ last.op = "createService"
    /\ last.result.err = ErrNotOwner
    /\ last.id \in Keys
    /\ saloonStorage[last.id].owner # last.caller

----------------------------------------------------------------------------
\* C4: id, owner and createdAt of a stored record never change: every step
\* that keeps a record keeps the three, and a key enters the map only in
\* createSaloon, under an identifier never handed out before, holding the
\* record createSaloon returned.
C4_IdentityImmutable ==
    [][/\ \A id \in Keys \cap DOMAIN saloonStorage' :
            /\ saloonStorage'[id].id = saloonStorage[id].id
            /\ saloonStorage'[id].owner = saloonStorage[id].owner
            /\ saloonStorage'[id].createdAt = saloonStorage[id].createdAt
       /\ \A id \in DOMAIN saloonStorage' \ Keys :
            /\ Called("createSaloon")
            /\ id \notin IssuedIds
            /\ last'.result = Ok(saloonStorage'[id])
            /\ saloonStorage'[id].id = id
            /\ saloonStorage'[id].owner = last'.caller
            /\ saloonStorage'[id].createdAt = now]_vars

\* a non-owner has updated a record, later than its creation
C4_Witness ==
    /\ last.op = "updateSaloonById"
    /\ last.result.ok
    /\ last.id \in Keys
    /\ last.caller # saloonStorage[last.id].owner
    /\ saloonStorage[last.id].createdAt < now

----------------------------------------------------------------------------
\* C5: servicesRendered is append-only and ordered: every step that keeps a
\* record keeps its earlier sequence as a prefix; a successful createService
\* makes it the previous sequence followed by exactly one new entry, whose
\* id was never handed out before; entries stand in call order and their ids
\* are pairwise distinct.
C5_ServicesAppendOnly ==
    [][/\ \A id \in Keys \cap DOMAIN saloonStorage' :
            IsPrefix(saloonStorage[id].servicesRendered, saloonStorage'[id].servicesRendered)
       /\ (Called("createService") /\ last'.result.ok) =>
            LET old == saloonStorage[last'.id].servicesRendered
                new == saloonStorage'[last'.id].servicesRendered
            IN /\ Len(new) = Len(old) + 1
               /\ \A i \in 1..Len(old) : new[i] = old[i]
               /\ new[Len(new)].id \notin IssuedIds
               /\ new[Len(new)].createdAt = now
               /\ last'.result = Ok(saloonStorage'[last'.id])
       /\ \A id \in DOMAIN saloonStorage' :
            LET s == saloonStorage'[id].servicesRendered
            IN \A i, j \in 1..Len(s) :
                  i < j => /\ s[i].id # s[j].id
                           /\ IssueIndex(s[i].id) < IssueIndex(s[j].id)]_vars

\* a saloon holds two services, the second just appended
C5_Witness ==
    /\ last.op = "createService"
    /\ last.result.ok
    /\ last.id \in Keys
    /\ Len(saloonStorage[last.id].servicesRendered) = 2

----------------------------------------------------------------------------
\* C6: updatedAt is absent exactly while no successful updateSaloonById,
\* rateSaloon or createService has been applied to the record: createSaloon
\* stores it absent, each such successful call sets it to the time of the
\* call, and every other step leaves it as it was.
C6_UpdatedAtTracksMutations ==
    [][/\ \A id \in DOMAIN saloonStorage' \ Keys : saloonStorage'[id].updatedAt = None
       /\ \A id \in Keys \cap DOMAIN saloonStorage' :
            IF /\ last'.result.ok
               /\ last'.id = id
               /\ \/ Called("updateSaloonById")
                  \/ Called("rateSaloon")
                  \/ Called("createService")
            THEN saloonStorage'[id].updatedAt = Some(now)
            ELSE saloonStorage'[id].updatedAt = saloonStorage[id].updatedAt]_vars

----------------------------------------------------------------------------
\* C7: a successful rateSaloon(id, rate) with 0 <= rate <= 5 stores and
\* returns the record with rating = (previous rating + rate) / 5, whatever
\* was rated before, and updatedAt = the time of the call; rate 5 on rating
\* 1 gives 6/5.
C7_RatingFormula ==
    [][\A id \in Keys, rate \in Rates :
          (rateSaloon(id, rate) /\ InRange(rate)) =>
             LET old == saloonStorage[id].rating
                 new == saloonStorage'[id].rating
             IN /\ last'.result = Ok(saloonStorage'[id])
                /\ IF IsNaN(old) THEN IsNaN(new)
                   ELSE /\ ~IsNaN(new)
                        /\ 5 * new[1] * old[2] * rate[2]
                              = (old[1] * rate[2] + rate[1] * old[2]) * new[2]
                /\ (old = <<1, 1>> /\ rate = <<5, 1>>) => new = <<6, 5>>
                /\ saloonStorage'[id].updatedAt = Some(now)]_vars

\* a saloon has been rated twice
C7_Witness ==
    /\ last.op = "rateSaloon"
    /\ last.result.ok
    /\ last.id \in Keys
    /\ saloonStorage[last.id].rating[2] >= 25

----------------------------------------------------------------------------
\* C8: rateSaloon with rate < 0 or rate > 5 returns the invalid-rating error
\* (InvalidArgument) whether or not the id resolves, and no stored rating
\* changes; with 0 <= rate <= 5 on an id that does not resolve it returns
\* "Saloon not found" (NotFound).
C8_RateRangeFirst ==
    [][\A id \in IdInputs, rate \in Rates :
          rateSaloon(id, rate) =>
             /\ OutOfRange(rate) =>
                   /\ last'.result = Err(ErrInvalidRate)
                   /\ DOMAIN saloonStorage' = Keys
                   /\ \A k \in Keys : saloonStorage'[k].rating = saloonStorage[k].rating
             /\ (InRange(rate) /\ id \notin Keys) =>
                   last'.result = Err(ErrRateNotFound)]_vars

\* an out-of-range rate on an id that does not resolve, with a saloon stored
C8_Witness ==
    /\ last.op = "rateSaloon"
    /\ last.result.err = ErrInvalidRate
    /\ last.id \notin Keys
    /\ Keys # {}

----------------------------------------------------------------------------
\* C9: deleteSaloon by the owner on an id that resolves returns the stored
\* record and removes it, so that getSaloonById on that id answers "does not
\* exist" (NotFound); an id handed out earlier that does not resolve never
\* resolves again, since a key enters the map only as a freshly generated
\* id; deleteSaloon on an id that does not resolve returns "saloon not
\* found" (NotFound).
C9_OwnerDeleteIsFinal ==
    [][/\ (Called("deleteSaloon") /\ last'.id \in Keys
             /\ last'.caller = saloonStorage[last'.id].owner) =>
            /\ last'.result = Ok(saloonStorage[last'.id])
            /\ last'.id \notin DOMAIN saloonStorage'
            /\ getSaloonByIdStep(saloonStorage', last'.id).result = Err(ErrDoesNotExist)
       /\ \A id \in DOMAIN saloonStorage' \ Keys : id \notin IssuedIds \cup {"", "zz"}
       /\ (Called("getSaloonById") /\ last'.id \in IssuedIds \ Keys) =>
            last'.result = Err(ErrDoesNotExist)
       /\ (Called("deleteSaloon") /\ last'.id \notin Keys) =>
            /\ last'.result = Err(ErrDeleteNotFound)
            /\ saloonStorage' = saloonStorage]_vars

\* the owner has just deleted one saloon of two
C9_Witness ==
    /\ last.op = "deleteSaloon"
    /\ last.result.ok
    /\ last.result.val[1].id = last.id
    /\ last.result.val[1].owner = last.caller
    /\ last.id \notin Keys
    /\ Keys # {}

----------------------------------------------------------------------------
\* C10: createSaloon with the three fields non-empty adds exactly one entry,
\* under an id that was not a key, leaving every other entry as it was; the
\* entry has owner = caller, rating 1, no services, createdAt = the time of
\* the call, updatedAt absent and the payload's text fields, and is what the
\* call returns.  With a field empty it returns "Missing required fields in
\* payload" (InvalidArgument) and the map is unchanged.
C10_CreateSaloon ==
    [][\A caller \in Principals, payload \in SaloonPayloads :
          createSaloon(caller, payload) =>
             IF /\ payload.saloonName # ""
                /\ payload.saloonLocation # ""
                /\ payload.attachmentURL # ""
             THEN /\ Cardinality(DOMAIN saloonStorage' \ Keys) = 1
                  /\ \A k \in Keys : k \in DOMAIN saloonStorage'
                                     /\ saloonStorage'[k] = saloonStorage[k]
                  /\ \A k \in DOMAIN saloonStorage' \ Keys :
                        /\ saloonStorage'[k] =
                              [id |-> k,
                               owner |-> caller,
                               saloonName |-> payload.saloonName,
                               saloonLocation |-> payload.saloonLocation,
                               attachmentURL |-> payload.attachmentURL,
                               servicesRendered |-> <<>>,
                               rating |-> <<1, 1>>,
                               createdAt |-> now,
                               updatedAt |-> None]
                        /\ last'.result = Ok(saloonStorage'[k])
             ELSE /\ last'.result = Err(ErrMissingFields)
                  /\ saloonStorage' = saloonStorage]_vars

\* a second saloon has just been created next to an existing one
C10_Witness ==
    /\ last.op = "createSaloon"
    /\ last.result.ok
    /\ Cardinality(Keys) = 2
    /\ last.result.val[1].id \in Keys

----------------------------------------------------------------------------
\* C11: getSaloonById never changes the map; it returns "Invalid id"
\* (InvalidArgument) for the empty id whatever is stored, "does not exist"
\* (NotFound) for a non-empty id that is not a key, and the stored record for
\* a key; right after a successful createSaloon, getSaloonById on the
\* returned id yields the returned record.
C11_GetReadsStore ==
    [][/\ \A id \in IdInputs :
            getSaloonById(id) =>
               /\ saloonStorage' = saloonStorage
               /\ id = "" => last'.result = Err(ErrInvalidId)
               /\ (id # "" /\ id \notin Keys) => last'.result = Err(ErrDoesNotExist)
               /\ id \in Keys => last'.result = Ok(saloonStorage[id])
       /\ (Called("createSaloon") /\ last'.result.ok) =>
            getSaloonByIdStep(saloonStorage', last'.result.val[1].id).result = last'.result]_vars

\* a record has just been fetched as createSaloon stored it
C11_Witness ==
    /\ last.op = "getSaloonById"
    /\ last.result.ok
    /\ last.id \in Keys
    /\ last.result.val[1] = saloonStorage[last.id]
    /\ saloonStorage[last.id].updatedAt = None
    /\ saloonStorage[last.id].rating = <<1, 1>>

----------------------------------------------------------------------------
\* C12: getAllSaloons never changes the map; it returns "No saloons found."
\* exactly when the map is empty (also after every saloon was deleted), and
\* otherwise exactly the stored records, each once.
C12_GetAllReadsStore ==
    [][Called("getAllSaloons") =>
          /\ saloonStorage' = saloonStorage
          /\ Keys = {} <=> ~last'.result.ok
          /\ Keys = {} => last'.result = Err(ErrNoSaloons)
          /\ Keys # {} =>
                /\ Len(last'.result.val) = Cardinality(Keys)
                /\ {last'.result.val[i] : i \in 1..Len(last'.result.val)}
                      = {saloonStorage[k] : k \in Keys}]_vars

\* both of two stored saloons have just been listed
C12_Witness ==
    /\ last.op = "getAllSaloons"
    /\ last.result.ok
    /\ Len(last.result.val) = 2
    /\ Cardinality(Keys) = 2

----------------------------------------------------------------------------
\* C13: updateSaloonById succeeds for every caller on an id that resolves:
\* it stores and returns the record with the three text fields of the
\* payload and updatedAt = the time of the call, every other field as it
\* was; on an id that does not resolve it returns "saloon not found"
\* (NotFound).
C13_UpdateByAnyone ==
    [][\A caller \in Principals, id \in IdInputs, payload \in UpdatePayloads :
          updateSaloonById(caller, id, payload) =>
             IF id \in Keys
             THEN /\ id \in DOMAIN saloonStorage'
                  /\ last'.result = Ok(saloonStorage'[id])
                  /\ saloonStorage'[id].saloonName = payload.saloonName
                  /\ saloonStorage'[id].saloonLocation = payload.saloonLocation
                  /\ saloonStorage'[id].attachmentURL = payload.attachmentURL
                  /\ saloonStorage'[id].updatedAt = Some(now)
                  /\ saloonStorage'[id].rating = saloonStorage[id].rating
                  /\ saloonStorage'[id].servicesRendered = saloonStorage[id].servicesRendered
             ELSE /\ last'.result = Err(ErrUpdateNotFound)
                  /\ saloonStorage' = saloonStorage]_vars

\* a non-owner has just updated a saloon that holds a service
C13_Witness ==
    /\ last.op = "updateSaloonById"
    /\ last.result.ok
    /\ last.id \in Keys
    /\ last.caller # saloonStorage[last.id].owner
    /\ saloonStorage[last.id].servicesRendered # <<>>
    /\ saloonStorage[last.id].updatedAt = Some(now)

----------------------------------------------------------------------------
\* C14: a successful createService changes only servicesRendered of its
\* saloon: updatedAt (absent or present), rating, the text fields, owner, id
\* and createdAt are as before, and every other record is as before.
C14_ServiceFrame ==
    [][(Called("createService") /\ last'.result.ok) =>
          /\ DOMAIN saloonStorage' = Keys
          /\ \A k \in Keys \ {last'.id} : saloonStorage'[k] = saloonStorage[k]
          /\ \A f \in DOMAIN saloonStorage[last'.id] \ {"servicesRendered"} :
                saloonStorage'[last'.id][f] = saloonStorage[last'.id][f]
          /\ DOMAIN saloonStorage'[last'.id] = DOMAIN saloonStorage[last'.id]]_vars

\* a service has just been added to a saloon whose updatedAt was already set
C14_Witness ==
    /\ last.op = "createService"
    /\ last.result.ok
    /\ last.id \in Keys
    /\ saloonStorage[last.id].updatedAt # None
    /\ Len(saloonStorage[last.id].servicesRendered) = 1

----------------------------------------------------------------------------
\* C15: every step changes the mapping of at most one key, and that key is
\* the id passed to the call, or for createSaloon the id it generated.
Touched ==
    {k \in Keys \cup DOMAIN saloonStorage' :
        \/ k \notin Keys
        \/ k \notin DOMAIN saloonStorage'
        \/ saloonStorage'[k] # saloonStorage[k]}

C15_OneRecordPerCall ==
    [][/\ Cardinality(Touched) <= 1
       /\ \A k \in Touched :
            /\ now' = now
            /\ IF last'.op = "createSaloon"
               THEN last'.result.ok /\ k = last'.result.val[1].id /\ k \notin IssuedIds
               ELSE k = last'.id]_vars

\* one of two stored saloons has just been deleted by its owner
C15_Witness ==
    /\ last.op = "deleteSaloon"
    /\ last.result.ok
    /\ Cardinality(Keys) = 1
    /\ last.id \notin Keys
    /\ \A k \in Keys : IssueIndex(k) < IssueIndex(last.id)

----------------------------------------------------------------------------
\* C16: rateSaloon with its two lookups behaves as one fetch, validate,
\* compute, store step on a single value: the same Result and the same map,
\* for every reachable map, id and rate; the second lookup finds the record
\* whenever the first did.
rateSaloonSingle(map, time, id, rate) ==
    IF rate[2] > 0 /\ (rate[1] < 0 \/ rate[1] > 5 * rate[2])
    THEN [store |-> map, result |-> Err(ErrInvalidRate)]
    ELSE IF id \notin DOMAIN map
    THEN [store |-> map, result |-> Err(ErrRateNotFound)]
    ELSE LET saloon == [map[id] EXCEPT !.rating = DivBy(Add(map[id].rating, rate), 5),
                                       !.updatedAt = <<time>>]
         IN [store |-> [map EXCEPT ![id] = saloon],
             result |-> [ok |-> TRUE, err |-> "", val |-> <<saloon>>]]

C16_RateSingleLookup ==
    [][\A id \in IdInputs, rate \in Rates :
          rateSaloon(id, rate) =>
             /\ saloonStorage' = rateSaloonSingle(saloonStorage, now, id, rate).store
             /\ last'.result = rateSaloonSingle(saloonStorage, now, id, rate).result
             /\ (Get(saloonStorage, id) # None /\ ~RateOutOfRange(rate)) =>
                   /\ id \in DOMAIN saloonStorage'
                   /\ last'.result.ok]_vars

\* a saloon has just been rated 5/2
C16_Witness ==
    /\ last.op = "rateSaloon"
    /\ last.result.ok
    /\ last.id \in Keys
    /\ saloonStorage[last.id].rating = <<7, 10>>

----------------------------------------------------------------------------
\* C17: the rating r of every stored saloon satisfies 0 < r <= 5/4.
C17_RatingBounded ==
    \A k \in Keys :
       LET r == saloonStorage[k].rating
       IN r[2] > 0 /\ r[1] > 0 /\ 4 * r[1] <= 5 * r[2]

----------------------------------------------------------------------------
\* C18: every entry of the map is filed under the id of the record it holds.
C18_KeyIsRecordId == \A k \in Keys : saloonStorage[k].id = k

\* two saloons are stored, one of them rewritten by createService
C18_Witness ==
    /\ Cardinality(Keys) = 2
    /\ \E k \in Keys : saloonStorage[k].servicesRendered # <<>>
    /\ last.op = "createService"

====
